---- MODULE Spec2Model ----
(***************************************************************************)
(* Secure PDF viewer: the client-side security monitor (the React hook     *)
(* useSecurityLayers), the server-side Access Gate (authMiddleware) and    *)
(* the document router (pdfRoutes).                                        *)
(*                                                                         *)
(* The hook is modelled as React runs it: a handler changes state, the     *)
(* component re-renders (isSecure is recomputed from the new state), and   *)
(* the passive effects whose dependencies changed are flushed before any   *)
(* other input is handled (FlushEffects).  Timers are kept with the time   *)
(* they have left, in milliseconds; time advances to the next due timer, or  *)
(* by one polling period when that is sooner.                              *)
(***************************************************************************)
EXTENDS Integers, Sequences, FiniteSets, TLC

(***************************************************************************)
(* Bounds of the model.                                                    *)
(***************************************************************************)
MaxTrigger == 2
MaxTimers == 2
MaxListeners == 2

(***************************************************************************)
(* Constants of the program.                                               *)
(***************************************************************************)
ViolationDelay == 3000
PollInterval == 1000
widthThreshold == 160
heightThreshold == 160
TimingThreshold == 100
ResizeThreshold == 500

VARIABLES
    enabled,            \* prop `enabled` of the hook
    propsStable,        \* the caller passes referentially stable userInfo/onSecurityEvent
    contentAttached,    \* contentRef.current is set
    isFocused,          \* useState(true)
    devToolsOpen,       \* useState(false)
    securityViolation,  \* useState(null): <<>> is null, <<m>> is the message m
    triggerCount,       \* useState(0)
    isSecure,           \* the flag computed by the last render
    style,              \* contentRef.current.style: opacity and filter
    timers,             \* pending setTimeout callbacks: kind and ms left, in creation order
    lastShown,          \* the message of the most recent showViolation call (<<>> before the first)
    effectsPending,     \* a render changed effect dependencies; the effects are not yet flushed
    attached,           \* the layers' listeners are attached
    intervalActive,     \* devToolsCheckInterval.current is the id of a running interval
    intervals,          \* how many intervals of checkDevTools are running
    keyupListeners,     \* how many of the anonymous keyup listeners are on the document
    submitted,          \* how many events have been passed to onSecurityEvent
    lastWidth,          \* useRef(window.outerWidth)
    lastHeight,         \* useRef(window.outerHeight)
    outerWidth,         \* window.outerWidth
    outerHeight,        \* window.outerHeight
    uncaught,           \* a timer callback threw (contentRef.current was null)
    step,               \* the last handler run: its name, its input and the calls it made, in order
    gpc,                \* where the request in flight is: idle, verifying, loading, next, done
    request,            \* the request in flight: method, path, headers.authorization
    stack,              \* the handlers of the route the request matched (<<>>: no route)
    token,              \* authMiddleware's local `token`
    reqUser,            \* req.user (<<>>: unset)
    verified,           \* how verifyIdToken settled for this request
    userDoc,            \* what the lookup of the user document gave
    responses,          \* the responses authMiddleware sent for this request, in order
    collaborators,      \* how often the verifier, the user store and next() were called
    ran,                \* the handlers that ran for this request, in order
    ppc,                \* where testAccess is: loop (about to start an iteration), awaiting, done
    iteration,          \* the indices of the two for loops: r into resourceTypes, t into types
    issued,             \* the URLs passed to https.get, in order
    results             \* what each request gave, in order: its outcome, and a later 'error' event

monitorVars == <<enabled, propsStable, contentAttached, isFocused, devToolsOpen,
                 securityViolation, triggerCount, isSecure, style, timers, lastShown,
                 effectsPending, attached, intervalActive, intervals, keyupListeners,
                 submitted,
                 lastWidth, lastHeight,
                 outerWidth, outerHeight, uncaught, step>>

gateVars == <<gpc, request, stack, token, reqUser, verified, userDoc, responses,
              collaborators, ran>>

probeVars == <<ppc, iteration, issued, results>>

serverVars == <<gateVars, probeVars>>

vars == <<monitorVars, gateVars, probeVars>>

(***************************************************************************)
(* JavaScript values.                                                      *)
(***************************************************************************)
Null == <<>>

\* ToBoolean of an optional string: null and the empty string are falsy.
Truthy(v) == v # Null /\ v[1] # ""

Abs(n) == IF n < 0 THEN -n ELSE n

Min(a, b) == IF a < b THEN a ELSE b

NoInput == <<>>

\* The record of one handler run: calls is the sequence of calls it made.
Ran(op, input, calls) == [op |-> op, input |-> input, calls |-> calls]

SecurityEvent(type, details) == [type |-> type, details |-> details]

NoDetails == <<>>

\* The calls a handler can make, as they are recorded in step.calls.
PreventDefault == <<"preventDefault">>
Hide == <<"hideContentInstantly">>
Clipboard == <<"clipboard.writeText">>
Log(type, details) == <<"logEvent", SecurityEvent(type, details)>>
ShowViolationCall(m) == <<"showViolation", m>>
ShowContentCall == <<"showContent">>
SetTimeoutShow(ms) == <<"setTimeout(showContent)", ms>>
SetIsFocused(b) == <<"setIsFocused", b>>
SetDevToolsOpen(b) == <<"setDevToolsOpen", b>>

\* The events a handler run submitted to the sink, in order.
Emitted(r) ==
    LET logs == SelectSeq(r.calls, LAMBDA c : c[1] = "logEvent")
    IN  [i \in 1..Len(logs) |-> logs[i][2]]

EmittedTypes(r) ==
    LET ev == Emitted(r) IN [i \in 1..Len(ev) |-> ev[i].type]

Prevented(r) == \E i \in 1..Len(r.calls) : r.calls[i] = PreventDefault

Violations(r) ==
    LET vs == SelectSeq(r.calls, LAMBDA c : c[1] = "showViolation")
    IN  [i \in 1..Len(vs) |-> vs[i][2]]

(***************************************************************************)
(* Render: isSecure as the hook computes it.                               *)
(***************************************************************************)
\* A render that leaves the DevTools verdict out of the flag.
IsSecureOf_WithoutDevTools(f, d, v) == f /\ ~Truthy(v)

IsSecureOf(f, d, v) == f /\ ~d /\ ~Truthy(v)

\* A state update followed by the re-render it causes.  React bails out when
\* no state changed; otherwise the render recomputes isSecure, and the effects
\* re-run when devToolsOpen changed or when logEvent got a new identity
\* (userInfo/onSecurityEvent not referentially stable).
Commit(pending, f, d, v, t) ==
    /\ isFocused' = f
    /\ devToolsOpen' = d
    /\ securityViolation' = v
    /\ triggerCount' = t
    /\ isSecure' = IsSecureOf(f, d, v)
    /\ effectsPending' = (\/ pending
                          \/ d # devToolsOpen
                          \/ (/\ ~propsStable
                              /\ <<f, d, v, t>> #
                                 <<isFocused, devToolsOpen, securityViolation, triggerCount>>))

(***************************************************************************)
(* Timers.                                                                 *)
(***************************************************************************)
\* A pending timer: the callback, the ms left, and for the restore chain the
\* event that started it and the ms from that event to the firing.
NoOrigin == <<>>

Timer(kind, ms) == [kind |-> kind, rem |-> ms, origin |-> NoOrigin, total |-> ms]

\* The event a handler run answers: keyboard events by their key.
Origin(op, input) == IF op \in {"keydown", "keyup"} THEN <<op, input.key>> ELSE <<op>>

IsShowTimer(t) == t.kind \in {"showContent", "restore"}

StartedBy(ts, origin) ==
    [i \in 1..Len(ts) |-> IF IsShowTimer(ts[i]) THEN [ts[i] EXCEPT !.origin = origin]
                                                 ELSE ts[i]]

\* The timers a firing timer schedules continue its chain.
ContinuedFrom(ts, t) ==
    [i \in 1..Len(ts) |-> [ts[i] EXCEPT !.origin = t.origin, !.total = t.total + ts[i].rem]]

RestoreDelay == 100
PrintScreenDelay == 2000

\* showViolation's setTimeout(() => setSecurityViolation(null), 3000).
ViolationTimer == Timer("clearViolation", ViolationDelay)

\* showContent(): when the content element is there, schedule the restore.
ShowContentTimers == IF contentAttached THEN <<Timer("restore", RestoreDelay)>> ELSE <<>>

\* hideContentInstantly(): opacity 0 and blur, when the content element is there.
Hidden == [opacity |-> "0", filter |-> "blur(50px)"]
Shown == [opacity |-> "1", filter |-> "none"]
Unstyled == [opacity |-> "", filter |-> ""]
StyleAfterHide == IF contentAttached THEN Hidden ELSE style

RemoveAt(s, i) == [j \in 1..(Len(s) - 1) |-> IF j < i THEN s[j] ELSE s[j + 1]]

(***************************************************************************)
(* Layer 2: the keyboard classifier of handleKeyDown.                      *)
(***************************************************************************)
Letters == {"p", "s", "c", "a", "u", "i", "j", "x"}
UpperLetters == {"P", "S", "C", "A", "U", "I", "J", "X"}
NamedKeys == {"F12", "f12", "PrintScreen", "Meta", "OS"}
Keys == Letters \cup UpperLetters \cup NamedKeys

KeyEvents == [key : Keys, ctrlKey : BOOLEAN, metaKey : BOOLEAN, shiftKey : BOOLEAN]

\* String.prototype.toLowerCase on the keys of the model.
ToLowerCase(k) ==
    CASE k = "P" -> "p" [] k = "S" -> "s" [] k = "C" -> "c" [] k = "A" -> "a"
      [] k = "U" -> "u" [] k = "I" -> "i" [] k = "J" -> "j" [] k = "X" -> "x"
      [] k = "F12" -> "f12" [] k = "PrintScreen" -> "printscreen"
      [] k = "Meta" -> "meta" [] k = "OS" -> "os"
      [] OTHER -> k

\* A combination without a shift property has combo.shift undefined (falsy).
Combo(ctrl, shift, key, action) ==
    [ctrl |-> ctrl, shift |-> shift, key |-> key, action |-> action]

blockedCombinations ==
    << Combo(TRUE, FALSE, "p", "print"),
       Combo(TRUE, FALSE, "s", "save"),
       Combo(TRUE, FALSE, "c", "copy"),
       Combo(TRUE, FALSE, "a", "select_all"),
       Combo(TRUE, FALSE, "u", "view_source"),
       Combo(TRUE, TRUE, "i", "devtools"),
       Combo(TRUE, TRUE, "j", "devtools"),
       Combo(TRUE, TRUE, "c", "devtools"),
       Combo(TRUE, TRUE, "s", "screenshot") >>

\* A matcher that takes a combination without `shift` to match either way.
ComboMatches_ShiftOptional(combo, e) ==
    LET key == ToLowerCase(e.key)
        isCtrl == e.ctrlKey \/ e.metaKey
        isShift == e.shiftKey
        ctrlMatch == IF combo.ctrl THEN isCtrl ELSE TRUE
        shiftMatch == IF combo.shift THEN isShift ELSE TRUE
        keyMatch == key = combo.key
    IN  ctrlMatch /\ shiftMatch /\ keyMatch

ComboMatches(combo, e) ==
    LET key == ToLowerCase(e.key)
        isCtrl == e.ctrlKey \/ e.metaKey
        isShift == e.shiftKey
        ctrlMatch == IF combo.ctrl THEN isCtrl ELSE TRUE
        shiftMatch == IF combo.shift THEN isShift ELSE ~isShift
        keyMatch == key = combo.key
    IN  ctrlMatch /\ shiftMatch /\ keyMatch

\* The for loop returns at the first combination that matches; 0 when none does.
FirstMatch(e) ==
    LET hits == {i \in 1..Len(blockedCombinations) : ComboMatches(blockedCombinations[i], e)}
    IN  IF hits = {} THEN 0 ELSE CHOOSE i \in hits : \A j \in hits : i <= j

\* `${combo.action.replace('_', ' ')} is disabled`
ActionMessage(action) ==
    CASE action = "print" -> "print is disabled"
      [] action = "save" -> "save is disabled"
      [] action = "copy" -> "copy is disabled"
      [] action = "select_all" -> "select all is disabled"
      [] action = "view_source" -> "view source is disabled"
      [] action = "devtools" -> "devtools is disabled"
      [] action = "screenshot" -> "screenshot is disabled"

\* The branch of handleKeyDown an event takes.
KeyBranch(e) ==
    IF FirstMatch(e) # 0 THEN "combo"
    ELSE IF e.key = "F12" THEN "F12"
    ELSE IF e.key = "PrintScreen" THEN "PrintScreen"
    ELSE IF e.key = "Meta" \/ e.key = "OS" THEN "Meta"
    ELSE "none"

\* A handleKeyDown that records and warns first and suppresses the default last.
KeyDownCalls_PreventLast(e) ==
    LET b == KeyBranch(e) IN
    CASE b = "combo" ->
           LET combo == blockedCombinations[FirstMatch(e)] IN
           << Log("KEYBOARD_BLOCKED", [action |-> combo.action, key |-> e.key]),
              ShowViolationCall(ActionMessage(combo.action)),
              PreventDefault >>
      [] b = "F12" ->
           << Log("KEYBOARD_BLOCKED", [action |-> "devtools", key |-> "F12"]),
              ShowViolationCall("Developer tools are disabled"),
              PreventDefault >>
      [] b = "PrintScreen" ->
           << Log("PRINTSCREEN_BLOCKED", NoDetails),
              ShowViolationCall("Screenshots are disabled"),
              Hide, Clipboard,
              SetTimeoutShow(PrintScreenDelay),
              PreventDefault >>
      [] b = "Meta" -> << Hide >>
      [] OTHER -> << >>

\* The calls handleKeyDown makes for an event, in order.
KeyDownCalls(e) ==
    LET b == KeyBranch(e) IN
    CASE b = "combo" ->
           LET combo == blockedCombinations[FirstMatch(e)] IN
           << PreventDefault,
              Log("KEYBOARD_BLOCKED", [action |-> combo.action, key |-> e.key]),
              ShowViolationCall(ActionMessage(combo.action)) >>
      [] b = "F12" ->
           << PreventDefault,
              Log("KEYBOARD_BLOCKED", [action |-> "devtools", key |-> "F12"]),
              ShowViolationCall("Developer tools are disabled") >>
      [] b = "PrintScreen" ->
           << PreventDefault, Hide, Clipboard,
              Log("PRINTSCREEN_BLOCKED", NoDetails),
              ShowViolationCall("Screenshots are disabled"),
              SetTimeoutShow(PrintScreenDelay) >>
      [] b = "Meta" -> << Hide >>
      [] OTHER -> << >>

(***************************************************************************)
(* Running a handler: the state after the calls it made.                   *)
(***************************************************************************)
\* The state updates and timers that a sequence of calls amounts to.
CountOf(calls, tag) == Cardinality({i \in 1..Len(calls) : calls[i][1] = tag})

LastOf(calls, tag, default) ==
    LET hits == {i \in 1..Len(calls) : calls[i][1] = tag}
    IN  IF hits = {} THEN default
        ELSE calls[CHOOSE i \in hits : \A j \in hits : j <= i][2]

\* A showViolation that sets the message and never schedules its clearing.
TimersOfCall_NoClear(c) ==
    CASE c[1] = "showContent" -> ShowContentTimers
      [] c[1] = "setTimeout(showContent)" -> <<Timer("showContent", c[2])>>
      [] OTHER -> <<>>

\* The timer a call schedules (none for most calls).
TimersOfCall(c) ==
    CASE c[1] = "showViolation" -> <<ViolationTimer>>
      [] c[1] = "showContent" -> ShowContentTimers
      [] c[1] = "setTimeout(showContent)" -> <<Timer("showContent", c[2])>>
      [] OTHER -> <<>>

RECURSIVE TimersOfCalls(_)
TimersOfCalls(calls) ==
    IF calls = <<>> THEN <<>>
    ELSE TimersOfCall(Head(calls)) \o TimersOfCalls(Tail(calls))

\* logEvent: onSecurityEvent(event) is called once per logEvent call ...
Submitted(calls) == CountOf(calls, "logEvent")

\* A logEvent that counts the blocked actions only.
Increments_BlockedOnly(calls) ==
    Cardinality({i \in 1..Len(calls) :
                    /\ calls[i][1] = "logEvent"
                    /\ calls[i][2].type \in {"CONTEXT_MENU_BLOCKED", "KEYBOARD_BLOCKED",
                                             "PRINTSCREEN_BLOCKED", "COPY_BLOCKED"}})

\* ... and so is setTriggerCount(prev => prev + 1): the updaters queued by one
\* handler all apply.
Increments(calls) == CountOf(calls, "logEvent")

\* A handler that made `calls`: state updates are batched into one render.
Handle(op, input, calls, pending) ==
    /\ submitted + Submitted(calls) <= MaxTrigger
    /\ Len(timers) + Len(TimersOfCalls(calls)) <= MaxTimers
    /\ Commit(pending,
              LastOf(calls, "setIsFocused", isFocused),
              LastOf(calls, "setDevToolsOpen", devToolsOpen),
              IF CountOf(calls, "showViolation") > 0
                  THEN <<LastOf(calls, "showViolation", "")>>
                  ELSE securityViolation,
              triggerCount + Increments(calls))
    /\ submitted' = submitted + Submitted(calls)
    /\ timers' = timers \o StartedBy(TimersOfCalls(calls), Origin(op, input))
    /\ lastShown' = IF CountOf(calls, "showViolation") > 0
                        THEN <<LastOf(calls, "showViolation", "")>>
                        ELSE lastShown
    /\ style' = IF CountOf(calls, "hideContentInstantly") > 0 THEN StyleAfterHide ELSE style
    /\ step' = Ran(op, input, calls)

(***************************************************************************)
(* Layer 4: checkDevTools.                                                 *)
(***************************************************************************)
\* What one poll measures: outer minus inner width and height, the duration
\* of the console write + clear, the duration around the debugger checkpoint.
SizeDiffs == {160, 161}
Durations == {100, 101}
Samples == [widthDiff : SizeDiffs, heightDiff : SizeDiffs,
            duration : Durations, debugDuration : Durations]

devToolsOpen1(m) == m.widthDiff > widthThreshold \/ m.heightDiff > heightThreshold
devToolsOpen2(m) == m.duration > TimingThreshold
devToolsOpen3(m) == m.debugDuration > TimingThreshold
isOpen(m) == devToolsOpen1(m) \/ devToolsOpen2(m) \/ devToolsOpen3(m)

\* A report that names the timing signal before the geometry signal.
DetectionMethod_TimingFirst(m) ==
    IF devToolsOpen2(m) THEN "console" ELSE IF devToolsOpen1(m) THEN "size" ELSE "debugger"

DetectionMethod(m) ==
    IF devToolsOpen1(m) THEN "size" ELSE IF devToolsOpen2(m) THEN "console" ELSE "debugger"

\* A level-triggered checkDevTools: it reports on every poll that finds DevTools open.
CheckDevToolsCalls_LevelTriggered(m, open) ==
    IF isOpen(m)
        THEN << SetDevToolsOpen(TRUE),
                Log("DEVTOOLS_DETECTED", [method |-> DetectionMethod(m)]) >>
    ELSE IF open
        THEN << SetDevToolsOpen(FALSE) >>
    ELSE << >>

\* The calls checkDevTools makes; `open` is the devToolsOpen its closure holds.
CheckDevToolsCalls(m, open) ==
    IF isOpen(m) /\ ~open
        THEN << SetDevToolsOpen(TRUE),
                Log("DEVTOOLS_DETECTED", [method |-> DetectionMethod(m)]) >>
    ELSE IF ~isOpen(m) /\ open
        THEN << SetDevToolsOpen(FALSE) >>
    ELSE << >>

(***************************************************************************)
(* Layer 5: handleResize.                                                  *)
(***************************************************************************)
Widths == {1000, 1500, 1501}
Heights == {800, 1300, 1301}

widthChange(w) == Abs(w - lastWidth)
heightChange(h) == Abs(h - lastHeight)

\* A threshold test that looks at the width alone.
LargeResize_WidthOnly(w, h) == widthChange(w) > ResizeThreshold

LargeResize(w, h) == widthChange(w) > ResizeThreshold \/ heightChange(h) > ResizeThreshold

HandleResizeCalls(w, h) ==
    IF LargeResize(w, h)
        THEN << Log("LARGE_RESIZE_DETECTED",
                    [widthChange |-> widthChange(w), heightChange |-> heightChange(h),
                     newWidth |-> w, newHeight |-> h]) >>
        ELSE << >>

(***************************************************************************)
(* The monitor's actions.                                                  *)
(***************************************************************************)
envVars == <<enabled, propsStable, contentAttached>>
layerVars == <<attached, intervalActive, intervals, keyupListeners>>
sizeVars == <<lastWidth, lastHeight, outerWidth, outerHeight>>

\* A listener runs when its layer is attached and no effect flush is due.
Listening == attached /\ ~effectsPending

InitMonitor ==
    /\ enabled \in BOOLEAN
    /\ propsStable \in BOOLEAN
    /\ contentAttached = TRUE
    /\ isFocused = TRUE
    /\ devToolsOpen = FALSE
    /\ securityViolation = Null
    /\ triggerCount = 0
    /\ isSecure = IsSecureOf(TRUE, FALSE, Null)
    /\ style = Unstyled
    /\ timers = <<>>
    /\ lastShown = Null
    /\ effectsPending = TRUE
    /\ attached = FALSE
    /\ intervalActive = FALSE
    /\ intervals = 0
    /\ keyupListeners = 0
    /\ submitted = 0
    /\ outerWidth \in Widths
    /\ outerHeight \in Heights
    /\ lastWidth = outerWidth
    /\ lastHeight = outerHeight
    /\ uncaught = FALSE
    /\ step = Ran("mount", NoInput, <<>>)

\* Layer 1: handleContextMenu.
ContextMenuCalls ==
    << PreventDefault, Log("CONTEXT_MENU_BLOCKED", NoDetails),
       ShowViolationCall("Right-click is disabled") >>

ContextMenu ==
    /\ Listening
    /\ Handle("contextmenu", NoInput, ContextMenuCalls, FALSE)
    /\ UNCHANGED <<envVars, layerVars, sizeVars, uncaught>>

\* Layer 2: handleKeyDown.
KeyDown(e) ==
    /\ Listening
    /\ Handle("keydown", e, KeyDownCalls(e), FALSE)
    /\ UNCHANGED <<envVars, layerVars, sizeVars, uncaught>>

\* Layer 2: the anonymous keyup listener.
MetaReleaseDelay == 1000

\* A keyup listener without the branch of the Meta/OS key.
KeyUpCalls_PrintScreenOnly(e) ==
    IF e.key = "PrintScreen"
        THEN << Hide, Clipboard, SetTimeoutShow(PrintScreenDelay) >>
        ELSE << >>

KeyUpCalls(e) ==
    (IF e.key = "PrintScreen"
        THEN << Hide, Clipboard, SetTimeoutShow(PrintScreenDelay) >>
        ELSE << >>)
    \o (IF e.key = "Meta" \/ e.key = "OS"
           THEN << SetTimeoutShow(MetaReleaseDelay) >>
           ELSE << >>)

\* dispatch: every listener on the target runs, in the order they were added.
RECURSIVE Repeated(_, _)
Repeated(calls, n) == IF n = 0 THEN << >> ELSE calls \o Repeated(calls, n - 1)

\* A key is released: every keyup listener that was ever added runs (none of
\* them is removed by a cleanup).
KeyUp(e) ==
    /\ ~effectsPending
    /\ keyupListeners > 0
    /\ Handle("keyup", e, Repeated(KeyUpCalls(e), keyupListeners), FALSE)
    /\ UNCHANGED <<envVars, layerVars, sizeVars, uncaught>>

\* Layer 3: handleFocus, handleBlur, handleVisibilityChange.
HandleFocusCalls == << SetIsFocused(TRUE), ShowContentCall >>
\* A handleBlur that leaves the hiding to the next render.
HandleBlurCalls_NoHide == << SetIsFocused(FALSE), Log("FOCUS_LOST", NoDetails) >>

HandleBlurCalls == << SetIsFocused(FALSE), Hide, Log("FOCUS_LOST", NoDetails) >>
\* A handleVisibilityChange that leaves isFocused to the window's focus event.
HandleVisibilityChangeCalls_ShowOnly(hidden) ==
    IF hidden
        THEN << SetIsFocused(FALSE), Hide, Log("TAB_HIDDEN", NoDetails) >>
        ELSE << ShowContentCall >>

HandleVisibilityChangeCalls(hidden) ==
    IF hidden
        THEN << SetIsFocused(FALSE), Hide, Log("TAB_HIDDEN", NoDetails) >>
        ELSE << SetIsFocused(TRUE), ShowContentCall >>

Focus ==
    /\ Listening
    /\ Handle("focus", NoInput, HandleFocusCalls, FALSE)
    /\ UNCHANGED <<envVars, layerVars, sizeVars, uncaught>>

Blur ==
    /\ Listening
    /\ Handle("blur", NoInput, HandleBlurCalls, FALSE)
    /\ UNCHANGED <<envVars, layerVars, sizeVars, uncaught>>

VisibilityChange(hidden) ==
    /\ Listening
    /\ Handle("visibilitychange", hidden, HandleVisibilityChangeCalls(hidden), FALSE)
    /\ UNCHANGED <<envVars, layerVars, sizeVars, uncaught>>

\* Layer 4: a tick of setInterval(checkDevTools, 1000).
IntervalTick(m) ==
    /\ intervals > 0 /\ ~effectsPending
    /\ Handle("poll", m, CheckDevToolsCalls(m, devToolsOpen), FALSE)
    /\ UNCHANGED <<envVars, layerVars, sizeVars, uncaught>>

\* Layer 5: the window is resized to w x h and handleResize runs.
Resize(w, h) ==
    /\ Listening
    /\ <<w, h>> # <<outerWidth, outerHeight>>
    /\ Handle("resize", <<w, h>>, HandleResizeCalls(w, h), FALSE)
    /\ outerWidth' = w
    /\ outerHeight' = h
    /\ lastWidth' = w
    /\ lastHeight' = h
    /\ UNCHANGED <<envVars, layerVars, uncaught>>

\* The window is resized while no resize listener is attached.
ResizeUnobserved(w, h) ==
    /\ ~attached /\ ~effectsPending
    /\ <<w, h>> # <<outerWidth, outerHeight>>
    /\ outerWidth' = w
    /\ outerHeight' = h
    /\ step' = Ran("window", <<w, h>>, <<>>)
    /\ UNCHANGED <<envVars, layerVars, lastWidth, lastHeight, uncaught, isFocused, submitted,
                   devToolsOpen, securityViolation, triggerCount, isSecure, style,
                   timers, lastShown, effectsPending>>

\* Layers 6 and 7: handleDragStart, handleDrop, handleSelectStart, handleCut.
PreventOnlyEvents == {"dragstart", "drop", "selectstart", "cut"}

PreventOnly(kind) ==
    /\ Listening
    /\ Handle(kind, NoInput, << PreventDefault >>, FALSE)
    /\ UNCHANGED <<envVars, layerVars, sizeVars, uncaught>>

\* Layer 7: handleCopy.
HandleCopyCalls ==
    << PreventDefault, Log("COPY_BLOCKED", NoDetails),
       ShowViolationCall("Copying is disabled") >>

Copy ==
    /\ Listening
    /\ Handle("copy", NoInput, HandleCopyCalls, FALSE)
    /\ UNCHANGED <<envVars, layerVars, sizeVars, uncaught>>

\* The parent re-renders the hook with `enabled` flipped.
ToggleEnabled ==
    /\ ~effectsPending
    /\ enabled' = ~enabled
    /\ effectsPending' = TRUE
    /\ step' = Ran("render", NoInput, <<>>)
    /\ UNCHANGED <<propsStable, contentAttached, layerVars, sizeVars, uncaught, isFocused, submitted,
                   devToolsOpen, securityViolation, triggerCount, isSecure, style,
                   timers, lastShown>>

\* The parent re-renders the hook with a new userInfo/onSecurityEvent identity.
Rerender ==
    /\ ~effectsPending
    /\ ~propsStable
    /\ effectsPending' = TRUE
    /\ step' = Ran("render", NoInput, <<>>)
    /\ UNCHANGED <<envVars, layerVars, sizeVars, uncaught, isFocused, submitted,
                   devToolsOpen, securityViolation, triggerCount, isSecure, style,
                   timers, lastShown>>

\* The effects of layers 1-3 and 5-7 depend on enabled and logEvent: they re-run
\* after a render with `enabled` flipped (or the mount), and after any render
\* when logEvent has a new identity each time.  A change of devToolsOpen alone
\* re-runs the effect of layer 4 only.
LayersRerun == step.op \in {"mount", "render"} \/ ~propsStable

\* The keyboard effect adds an anonymous keyup listener each time its body runs
\* while enabled; its cleanup removes the keydown listener only.
KeyupListenersAfter ==
    IF LayersRerun /\ enabled THEN keyupListeners + 1 ELSE keyupListeners

\* A disabled monitor that puts its flags back to their first values.
DisabledEffectCalls_Reset == << SetIsFocused(TRUE), SetDevToolsOpen(FALSE) >>

\* if (!enabled) return;  -- the body of every effect, while disabled.
DisabledEffectCalls == << >>

\* An effect of layer 4 whose cleanup leaves the interval running.
IntervalsAfter_NoClear == IF enabled THEN intervals + 1 ELSE intervals

\* The cleanup of layer 4 (there is one when the body last ran while enabled)
\* clears the interval whose id the ref holds; the body, when enabled, starts
\* a new interval and stores its id in the ref.
IntervalsAfter ==
    LET cleared == IF attached /\ intervalActive THEN intervals - 1 ELSE intervals
    IN  IF enabled THEN cleared + 1 ELSE cleared

\* The effects whose dependencies changed are flushed: the cleanups detach the
\* listeners and clear the interval; when enabled, the bodies attach them again,
\* checkDevTools runs at once and a new interval is started.
FlushEffects(m) ==
    /\ effectsPending
    /\ keyupListeners' = KeyupListenersAfter
    /\ keyupListeners' <= MaxListeners
    /\ intervals' = IntervalsAfter
    /\ IF enabled
          THEN /\ attached' = TRUE
               /\ intervalActive' = TRUE
               /\ Handle("effect", m, CheckDevToolsCalls(m, devToolsOpen), FALSE)
          ELSE /\ attached' = FALSE
               /\ intervalActive' = FALSE
               /\ Handle("effect", NoInput, DisabledEffectCalls, FALSE)
    /\ UNCHANGED <<envVars, sizeVars, uncaught>>

\* The content element is mounted or unmounted (contentRef.current changes).
ContentRefChange ==
    /\ ~effectsPending
    /\ contentAttached' = ~contentAttached
    /\ style' = IF contentAttached THEN style ELSE Unstyled
    /\ step' = Ran("content", ~contentAttached, <<>>)
    /\ UNCHANGED <<enabled, propsStable, layerVars, sizeVars, uncaught, isFocused, submitted,
                   devToolsOpen, securityViolation, triggerCount, isSecure,
                   timers, lastShown, effectsPending>>

(***************************************************************************)
(* Time and timer callbacks.                                               *)
(***************************************************************************)
MinRem == CHOOSE r \in {timers[i].rem : i \in 1..Len(timers)} :
              \A i \in 1..Len(timers) : r <= timers[i].rem

\* Time passes: by one polling period, or up to the next due timer when that
\* is sooner.
Advance ==
    /\ ~effectsPending
    /\ timers # <<>>
    /\ MinRem > 0
    /\ LET d == Min(PollInterval, MinRem)
       IN  /\ timers' = [i \in 1..Len(timers) |-> [timers[i] EXCEPT !.rem = @ - d]]
           /\ step' = Ran("time", d, <<>>)
    /\ UNCHANGED <<envVars, layerVars, sizeVars, uncaught, isFocused, devToolsOpen, submitted,
                   securityViolation, triggerCount, isSecure, style, lastShown,
                   effectsPending>>

\* () => setSecurityViolation(null)
FireClearViolation(i) ==
    /\ ~effectsPending
    /\ i \in 1..Len(timers)
    /\ timers[i].kind = "clearViolation" /\ timers[i].rem = 0
    /\ Commit(FALSE, isFocused, devToolsOpen, Null, triggerCount)
    /\ timers' = RemoveAt(timers, i)
    /\ step' = Ran("timer", "clearViolation", <<>>)
    /\ UNCHANGED <<envVars, layerVars, sizeVars, uncaught, style, lastShown, submitted>>

\* setTimeout(showContent, ms) fires: showContent schedules the restore.
FireShowContent(i) ==
    /\ ~effectsPending
    /\ i \in 1..Len(timers)
    /\ timers[i].kind = "showContent" /\ timers[i].rem = 0
    /\ timers' = RemoveAt(timers, i) \o ContinuedFrom(ShowContentTimers, timers[i])
    /\ step' = Ran("timer", "showContent", << ShowContentCall >>)
    /\ UNCHANGED <<envVars, layerVars, sizeVars, uncaught, isFocused, devToolsOpen, submitted,
                   securityViolation, triggerCount, isSecure, style, lastShown,
                   effectsPending>>

\* A restore that stands back when the window has lost focus since.
RestoredStyle_UnlessBlurred == IF isFocused THEN Shown ELSE style

\* contentRef.current.style.opacity = '1'; contentRef.current.style.filter = 'none'
RestoredStyle == Shown

\* The restore callback of showContent: it dereferences contentRef.current
\* without a check, so it throws when the element is gone.
FireRestore(i) ==
    /\ ~effectsPending
    /\ i \in 1..Len(timers)
    /\ timers[i].kind = "restore" /\ timers[i].rem = 0
    /\ timers' = RemoveAt(timers, i)
    /\ IF contentAttached
          THEN style' = RestoredStyle /\ UNCHANGED uncaught
          ELSE uncaught' = TRUE /\ UNCHANGED style
    /\ step' = Ran("timer", "restore", <<>>)
    /\ UNCHANGED <<envVars, layerVars, sizeVars, isFocused, devToolsOpen,
                   securityViolation, triggerCount, isSecure, lastShown,
                   effectsPending, submitted>>

(***************************************************************************)
(* Strings of the Access Gate, as sequences of characters.                 *)
(***************************************************************************)
Undefined == <<"undefined">>

BearerPrefix == <<"B", "e", "a", "r", "e", "r", " ">>

\* String.prototype.startsWith
StartsWith(str, prefix) ==
    /\ Len(str) >= Len(prefix)
    /\ SubSeq(str, 1, Len(prefix)) = prefix

\* String.prototype.split with a one-character separator.
RECURSIVE Split(_, _)
Split(str, sep) ==
    LET at == {i \in 1..Len(str) : str[i] = sep}
    IN  IF at = {} THEN <<str>>
        ELSE LET i == CHOOSE k \in at : \A l \in at : k <= l
             IN  <<SubSeq(str, 1, i - 1)>> \o Split(SubSeq(str, i + 1, Len(str)), sep)

\* ToBoolean of a header value: undefined and the empty string are falsy.
HeaderTruthy(h) == h # Undefined /\ h # <<>>

\* The headers tried: those that begin with "Bearer " ...
BearerHeaders ==
    { BearerPrefix \o <<"v">>,                  \* "Bearer v": a token that verifies
      BearerPrefix \o <<"x">>,                  \* "Bearer x": an expired token
      BearerPrefix \o <<"f">>,                  \* "Bearer f": a forged signature
      BearerPrefix \o <<"m">>,                  \* "Bearer m": not a JWT
      BearerPrefix,                             \* "Bearer ": empty token
      BearerPrefix \o <<" ", "v">>,             \* "Bearer  v": two spaces
      BearerPrefix \o <<"v", " ", "x">> }       \* "Bearer v x"

\* ... and those that do not (undefined: no Authorization header at all).
OtherHeaders ==
    { Undefined,
      <<>>,                                                 \* ""
      <<"B", "e", "a", "r", "e", "r", "v">>,                \* "Bearerv"
      <<"b", "e", "a", "r", "e", "r", " ", "v">>,           \* "bearer v"
      <<"B", "a", "s", "i", "c", " ", "v">>,                \* "Basic v"
      <<" ">> \o BearerPrefix \o <<"v">>,                   \* " Bearer v"
      <<"B", "e", "a", "r", "e", "r">> }                    \* "Bearer"

AuthorizationHeaders == BearerHeaders \cup OtherHeaders

(***************************************************************************)
(* The collaborators of the Access Gate.                                   *)
(***************************************************************************)
\* admin.auth().verifyIdToken(token): resolves with the decoded token or
\* rejects with a cause.
Decoded(uid) == [ok |-> TRUE, uid |-> uid, cause |-> "none"]
Rejected(cause) == [ok |-> FALSE, uid |-> "", cause |-> cause]

VerifyIdToken(t) ==
    CASE t = <<"v">> -> Decoded("u1")
      [] t = <<"x">> -> Rejected("auth/id-token-expired")
      [] t = <<"f">> -> Rejected("auth/invalid-signature")
      [] OTHER -> Rejected("auth/argument-error")

NotVerified == [ok |-> FALSE, uid |-> "", cause |-> "not called"]

\* db.collection('users').doc(uid).get(): it throws, or gives a document that
\* does not exist, or one with data.  A field that is missing is "undefined".
DisabledValues == {"true", "false", "undefined"}
DisabledReasons == {<<"undefined">>, <<>>, <<"Repeated screenshots">>}

LookupOutcomes ==
    { [kind |-> "throws", disabled |-> "undefined", disabledReason |-> Undefined],
      [kind |-> "absent", disabled |-> "undefined", disabledReason |-> Undefined] }
    \cup [kind : {"exists"}, disabled : DisabledValues, disabledReason : DisabledReasons]

NoLookup == [kind |-> "none", disabled |-> "undefined", disabledReason |-> Undefined]

(***************************************************************************)
(* authMiddleware.                                                         *)
(***************************************************************************)
Response(status, body) == [status |-> status, body |-> body]

NoTokenResponse == Response(401, [message |-> "Unauthorized: No token provided"])

\* A catch block that reports the cause to the caller.
InvalidTokenResponse_WithCause(error) == Response(401, [message |-> error])

\* A catch block that reports a failure of the user store as a server error.
InvalidTokenResponse_StoreIs500(error) ==
    IF error = "store"
        THEN Response(500, [message |-> "Internal server error"])
        ELSE Response(401, [message |-> "Unauthorized: Invalid token"])

\* The catch block: the cause is logged, the body does not depend on it.
InvalidTokenResponse(error) == Response(401, [message |-> "Unauthorized: Invalid token"])

\* A reason that is always the default.
Reason_AlwaysDefault(disabledReason) == <<"Terms verification pending">>

\* userData.disabledReason || 'Terms verification pending'
Reason(disabledReason) ==
    IF disabledReason # Undefined /\ disabledReason # <<>>
        THEN disabledReason
        ELSE <<"Terms verification pending">>

SuspendedResponse(userData) ==
    Response(403, [message |-> "Account suspended due to security violations.",
                   reason |-> Reason(userData.disabledReason)])

\* A header check that accepts any non-empty header.
HasBearer_AnyHeader(authHeader) == HeaderTruthy(authHeader)

\* if (authHeader && authHeader.startsWith('Bearer '))
HasBearer(authHeader) == HeaderTruthy(authHeader) /\ StartsWith(authHeader, BearerPrefix)

\* authHeader.split(' ')[1]
TokenOf(authHeader) ==
    LET parts == Split(authHeader, " ")
    IN  IF Len(parts) >= 2 THEN parts[2] ELSE Undefined

\* A check that treats a missing user document as a suspended account.
Suspended_WhenAbsent(doc) == doc.kind = "absent" \/ (doc.kind = "exists" /\ doc.disabled = "true")

\* if (userDoc.exists) { ... if (userData.disabled) ... }
Suspended(doc) == doc.kind = "exists" /\ doc.disabled = "true"

(***************************************************************************)
(* pdfRoutes: the routes in registration order.                            *)
(***************************************************************************)
Route(method, path, handlers) == [method |-> method, path |-> path, handlers |-> handlers]

\* A router whose proxy route was registered without the gate.
routes_ProxyUnguarded ==
    << Route("POST", <<"upload">>, <<"authMiddleware", "upload.single", "uploadPDF">>),
       Route("GET", <<":groupId">>, <<"authMiddleware", "getGroupPDFs">>),
       Route("GET", <<"metadata", ":pdfId">>, <<"authMiddleware", "getPDFMetadata">>),
       Route("POST", <<"sign-url">>, <<"authMiddleware", "generateSignedUrl">>),
       Route("DELETE", <<":pdfId">>, <<"authMiddleware", "deletePDF">>),
       Route("GET", <<"proxy", ":pdfId">>, <<"proxyPDF">>) >>

routes ==
    << Route("POST", <<"upload">>, <<"authMiddleware", "upload.single", "uploadPDF">>),
       Route("GET", <<":groupId">>, <<"authMiddleware", "getGroupPDFs">>),
       Route("GET", <<"metadata", ":pdfId">>, <<"authMiddleware", "getPDFMetadata">>),
       Route("POST", <<"sign-url">>, <<"authMiddleware", "generateSignedUrl">>),
       Route("DELETE", <<":pdfId">>, <<"authMiddleware", "deletePDF">>),
       Route("GET", <<"proxy", ":pdfId">>, <<"authMiddleware", "proxyPDF">>) >>

Methods == {"GET", "POST", "DELETE"}

Paths == { <<"upload">>, <<"g1">>, <<"metadata", "p1">>, <<"sign-url">>, <<"p1">>,
           <<"proxy", "p1">>, <<"metadata">>, <<"g1", "p1", "x">> }

IsParam(segment) == segment \in {":groupId", ":pdfId"}

\* A path matches a pattern segment by segment; a parameter matches anything.
PathMatches(pattern, path) ==
    /\ Len(pattern) = Len(path)
    /\ \A i \in 1..Len(pattern) : IsParam(pattern[i]) \/ pattern[i] = path[i]

\* The handlers of the first route that matches, <<>> when none does.
MatchRoute(method, path) ==
    LET hits == {i \in 1..Len(routes) :
                    routes[i].method = method /\ PathMatches(routes[i].path, path)}
    IN  IF hits = {} THEN <<>>
        ELSE routes[CHOOSE i \in hits : \A j \in hits : i <= j].handlers

(***************************************************************************)
(* One request through the router and the gate.  The awaits of             *)
(* authMiddleware are the steps.                                           *)
(***************************************************************************)
NoRequest == [method |-> "", path |-> <<>>, authorization |-> Undefined]

Calls(verifier, store, next) == [verifier |-> verifier, store |-> store, next |-> next]

InitGate ==
    /\ gpc = "idle"
    /\ request = NoRequest
    /\ stack = <<>>
    /\ token = Undefined
    /\ reqUser = <<>>
    /\ verified = NotVerified
    /\ userDoc = NoLookup
    /\ responses = <<>>
    /\ collaborators = Calls(0, 0, 0)
    /\ ran = <<>>

\* A request arrives and is dispatched to the first handler of its route.
\* authMiddleware runs up to its first await.
Receive(method, path, authHeader) ==
    /\ gpc = "idle"
    /\ request' = [method |-> method, path |-> path, authorization |-> authHeader]
    /\ stack' = MatchRoute(method, path)
    /\ reqUser' = <<>>
    /\ verified' = NotVerified
    /\ userDoc' = NoLookup
    /\ IF stack' = <<>>
          THEN /\ gpc' = "done"
               /\ ran' = <<>>
               /\ token' = Undefined
               /\ responses' = <<>>
               /\ collaborators' = Calls(0, 0, 0)
       ELSE IF Head(stack') # "authMiddleware"
          THEN /\ gpc' = "next"
               /\ ran' = <<>>
               /\ token' = Undefined
               /\ responses' = <<>>
               /\ collaborators' = Calls(0, 0, 0)
       ELSE IF HasBearer(authHeader)
          THEN /\ gpc' = "verifying"
               /\ ran' = <<"authMiddleware">>
               /\ token' = TokenOf(authHeader)
               /\ responses' = <<>>
               /\ collaborators' = Calls(1, 0, 0)
          ELSE /\ gpc' = "done"
               /\ ran' = <<"authMiddleware">>
               /\ token' = Undefined
               /\ responses' = <<NoTokenResponse>>
               /\ collaborators' = Calls(0, 0, 0)

\* await admin.auth().verifyIdToken(token) settles.
VerifyDone ==
    /\ gpc = "verifying"
    /\ verified' = VerifyIdToken(token)
    /\ IF verified'.ok
          THEN /\ reqUser' = <<verified'.uid>>
               /\ collaborators' = [collaborators EXCEPT !.store = @ + 1]
               /\ gpc' = "loading"
               /\ UNCHANGED responses
          ELSE /\ responses' = Append(responses, InvalidTokenResponse(verified'.cause))
               /\ gpc' = "done"
               /\ UNCHANGED <<reqUser, collaborators>>
    /\ UNCHANGED <<request, stack, token, userDoc, ran>>

\* await db.collection('users').doc(uid).get() settles.
LookupDone(doc) ==
    /\ gpc = "loading"
    /\ userDoc' = doc
    /\ IF doc.kind = "throws"
          THEN /\ responses' = Append(responses, InvalidTokenResponse("store"))
               /\ gpc' = "done"
               /\ UNCHANGED collaborators
       ELSE IF Suspended(doc)
          THEN /\ responses' = Append(responses, SuspendedResponse(doc))
               /\ gpc' = "done"
               /\ UNCHANGED collaborators
          ELSE /\ collaborators' = [collaborators EXCEPT !.next = @ + 1]
               /\ gpc' = "next"
               /\ UNCHANGED responses
    /\ UNCHANGED <<request, stack, token, reqUser, verified, ran>>

\* The handlers after the gate run: the multipart parser of the upload route
\* passes on to the controller when it parsed the body.  next() is called
\* inside authMiddleware's try block: when it throws, the catch block answers.
Rest(handlers) ==
    IF handlers # <<>> /\ Head(handlers) = "authMiddleware" THEN Tail(handlers) ELSE handlers

HandlersRun(handlers, parsed) ==
    IF handlers # <<>> /\ Head(handlers) = "upload.single" /\ ~parsed
        THEN <<Head(handlers)>>
        ELSE handlers

Downstream(parsed, thrown) ==
    /\ gpc = "next"
    /\ ran' = ran \o HandlersRun(Rest(stack), parsed)
    /\ responses' = IF thrown /\ collaborators.next > 0
                        THEN Append(responses, InvalidTokenResponse("next"))
                        ELSE responses
    /\ gpc' = "done"
    /\ UNCHANGED <<request, stack, token, reqUser, verified, userDoc, collaborators>>

\* The request is over; the next one can arrive.
Finish ==
    /\ gpc = "done"
    /\ gpc' = "idle"
    /\ UNCHANGED <<request, stack, token, reqUser, verified, userDoc, responses,
                   collaborators, ran>>

(***************************************************************************)
(* The combination probe: testAccess.                                      *)
(***************************************************************************)
resourceTypes == <<"image", "raw", "auto">>
types == <<"upload", "authenticated">>

\* cloudinary.url(publicId, {resource_type, type, sign_url: true, secure: true})
SignedUrl(rType, type) ==
    [resource_type |-> rType, type |-> type, sign_url |-> TRUE, secure |-> TRUE]

\* What a request gives: a response with a status, or an 'error' event.
ProbeStatuses == {200, 404}
Responded(statusCode) == [kind |-> "response", statusCode |-> statusCode]
Errored == [kind |-> "error", statusCode |-> 0]
ProbeOutcomes == {Responded(c) : c \in ProbeStatuses} \cup {Errored}

Iteration(r, t) == [r |-> r, t |-> t]

\* A loop that tries a combination again when its request failed.
NextIteration_RetryOnError(it, outcome) ==
    IF outcome.kind = "error" THEN it
    ELSE IF it.t < Len(types) THEN Iteration(it.r, it.t + 1)
    ELSE Iteration(it.r + 1, 1)

\* Both callbacks call resolve() and nothing else that steers the loops: the
\* inner loop moves on, and the outer one when the inner one is through.
NextIteration(it, outcome) ==
    IF it.t < Len(types) THEN Iteration(it.r, it.t + 1)
    ELSE Iteration(it.r + 1, 1)

InitProbe ==
    /\ ppc = "loop"
    /\ iteration = Iteration(1, 1)
    /\ issued = <<>>
    /\ results = <<>>

\* One iteration up to its await: the URL is built and https.get is called;
\* when the outer loop is through, testAccess returns.
StartRequest ==
    /\ ppc = "loop"
    /\ IF iteration.r <= Len(resourceTypes)
          THEN /\ issued' = Append(issued, SignedUrl(resourceTypes[iteration.r],
                                                     types[iteration.t]))
               /\ ppc' = "awaiting"
          ELSE /\ ppc' = "done"
               /\ UNCHANGED issued
    /\ UNCHANGED <<iteration, results>>

\* The response callback or the 'error' callback of the request in flight
\* runs: it logs and resolves the promise, and the loop goes on.
Settle(outcome) ==
    /\ ppc = "awaiting"
    /\ results' = Append(results, [outcome |-> outcome, lateError |-> FALSE])
    /\ iteration' = NextIteration(iteration, outcome)
    /\ ppc' = "loop"
    /\ UNCHANGED issued

\* A request whose response has arrived (and whose body is never read) emits
\* 'error' afterwards: the callback logs and calls resolve() again, which does
\* nothing to a promise that is already resolved.
LateError(k) ==
    /\ k \in 1..Len(results)
    /\ results[k].outcome.kind = "response"
    /\ ~results[k].lateError
    /\ results' = [results EXCEPT ![k].lateError = TRUE]
    /\ UNCHANGED <<ppc, iteration, issued>>

NextProbe ==
    \/ StartRequest
    \/ \E outcome \in ProbeOutcomes : Settle(outcome)
    \/ \E k \in 1..(Len(resourceTypes) * Len(types)) : LateError(k)

(***************************************************************************)
(* Specifications.  Spec runs the state-carrying layers (context menu,     *)
(* focus, visibility, DevTools) of an enabled monitor with the violation   *)
(* and restore timers; SpecDevTools and SpecResize run one layer each over *)
(* all of its inputs, with the enable/disable and re-attachment steps;     *)
(* SpecKeyboard runs every keydown descriptor, and blur; SpecShield runs   *)
(* the PrintScreen and Meta keys, pressed and released, with the timers    *)
(* and enable/disable; SpecTeardown runs the restore timers while the      *)
(* monitor is disabled or the content element goes away; SpecMeta runs the *)
(* platform-menu key; SpecRecovery runs the layers behind isSecure under   *)
(* fair timers; SpecToggle switches the monitor on and off between right-  *)
(* clicks, copies, blurs and polls; SpecGate runs                          *)
(* requests through the router and the Access Gate; SpecProbe runs the     *)
(* combination probe under fair request completion.                        *)
(***************************************************************************)
FixedWindow == outerWidth = 1000 /\ outerHeight = 800

\* One sample per verdict: nothing, geometry, timing.
CoreSamples == {m \in Samples : m.heightDiff = 160 /\ m.debugDuration = 100
                                /\ ~(m.widthDiff = 161 /\ m.duration = 101)}

Lifecycle ==
    \/ ToggleEnabled
    \/ Rerender

Init == InitMonitor /\ enabled /\ propsStable /\ FixedWindow /\ InitGate /\ InitProbe

Next ==
    \/ ContextMenu /\ UNCHANGED serverVars
    \/ Focus /\ UNCHANGED serverVars
    \/ Blur /\ UNCHANGED serverVars
    \/ \E hidden \in BOOLEAN : VisibilityChange(hidden) /\ UNCHANGED serverVars
    \/ \E m \in CoreSamples : IntervalTick(m) /\ UNCHANGED serverVars
    \/ \E m \in CoreSamples : FlushEffects(m) /\ UNCHANGED serverVars
    \/ Advance /\ UNCHANGED serverVars
    \/ \E i \in 1..MaxTimers : FireClearViolation(i) /\ UNCHANGED serverVars
    \/ \E i \in 1..MaxTimers : FireRestore(i) /\ UNCHANGED serverVars

Spec == Init /\ [][Next]_vars

InitDevTools == InitMonitor /\ FixedWindow /\ InitGate /\ InitProbe

NextDevTools ==
    \/ \E m \in Samples : IntervalTick(m) /\ UNCHANGED serverVars
    \/ \E m \in Samples : FlushEffects(m) /\ UNCHANGED serverVars
    \/ Lifecycle /\ UNCHANGED serverVars
    \/ Blur /\ UNCHANGED serverVars
    \/ Focus /\ UNCHANGED serverVars

SpecDevTools == InitDevTools /\ [][NextDevTools]_vars

InitResize == InitMonitor /\ InitGate /\ InitProbe

NextResize ==
    \/ \E w \in Widths, h \in Heights : Resize(w, h) /\ UNCHANGED serverVars
    \/ \E w \in Widths, h \in Heights : ResizeUnobserved(w, h) /\ UNCHANGED serverVars
    \/ \E m \in {m \in Samples : ~isOpen(m)} : FlushEffects(m) /\ UNCHANGED serverVars
    \/ Lifecycle /\ UNCHANGED serverVars

SpecResize == InitResize /\ [][NextResize]_vars

InitKeyboard == InitMonitor /\ propsStable /\ FixedWindow /\ InitGate /\ InitProbe

NextKeyboard ==
    \/ \E e \in KeyEvents : KeyDown(e) /\ UNCHANGED serverVars
    \/ \E m \in {m \in Samples : ~isOpen(m)} : FlushEffects(m) /\ UNCHANGED serverVars
    \/ Blur /\ UNCHANGED serverVars

SpecKeyboard == InitKeyboard /\ [][NextKeyboard]_vars

\* The keys of the content shield, pressed and released without modifiers.
PlainKey(k) == [key |-> k, ctrlKey |-> FALSE, metaKey |-> FALSE, shiftKey |-> FALSE]

ShieldKeys == {PlainKey("PrintScreen"), PlainKey("Meta")}

QuietSample == [widthDiff |-> 160, heightDiff |-> 160, duration |-> 100, debugDuration |-> 100]

InitShield == InitMonitor /\ propsStable /\ FixedWindow /\ InitGate /\ InitProbe

NextShield ==
    \/ \E e \in ShieldKeys : KeyDown(e) /\ UNCHANGED serverVars
    \/ \E e \in ShieldKeys : KeyUp(e) /\ UNCHANGED serverVars
    \/ ContextMenu /\ UNCHANGED serverVars
    \/ Focus /\ UNCHANGED serverVars
    \/ Blur /\ UNCHANGED serverVars
    \/ FlushEffects(QuietSample) /\ UNCHANGED serverVars
    \/ ToggleEnabled /\ UNCHANGED serverVars
    \/ Advance /\ UNCHANGED serverVars
    \/ \E i \in 1..MaxTimers : FireClearViolation(i) /\ UNCHANGED serverVars
    \/ \E i \in 1..MaxTimers : FireShowContent(i) /\ UNCHANGED serverVars
    \/ \E i \in 1..MaxTimers : FireRestore(i) /\ UNCHANGED serverVars

SpecShield == InitShield /\ [][NextShield]_vars

\* The platform-menu key under both of its names, with every modifier state.
MetaKeyEvents == {e \in KeyEvents : e.key \in {"Meta", "OS"}}

InitMeta == InitMonitor /\ enabled /\ propsStable /\ FixedWindow /\ InitGate /\ InitProbe

NextMeta ==
    \/ \E e \in MetaKeyEvents : KeyDown(e) /\ UNCHANGED serverVars
    \/ \E k \in {"Meta", "OS"} : KeyUp(PlainKey(k)) /\ UNCHANGED serverVars
    \/ FlushEffects(QuietSample) /\ UNCHANGED serverVars
    \/ Advance /\ UNCHANGED serverVars
    \/ \E i \in 1..MaxTimers : FireShowContent(i) /\ UNCHANGED serverVars
    \/ \E i \in 1..MaxTimers : FireRestore(i) /\ UNCHANGED serverVars

SpecMeta == InitMeta /\ [][NextMeta]_vars

\* The layers that move the three terms of isSecure, with the timers; the
\* browser runs a due timer callback, the clock moves on, and React flushes the
\* effects of a committed render.
InitRecovery == InitMonitor /\ enabled /\ propsStable /\ FixedWindow /\ InitGate /\ InitProbe

NextRecovery ==
    \/ ContextMenu /\ UNCHANGED serverVars
    \/ Focus /\ UNCHANGED serverVars
    \/ Blur /\ UNCHANGED serverVars
    \/ \E m \in CoreSamples : IntervalTick(m) /\ UNCHANGED serverVars
    \/ \E m \in CoreSamples : FlushEffects(m) /\ UNCHANGED serverVars
    \/ Advance /\ UNCHANGED serverVars
    \/ \E i \in 1..MaxTimers : FireClearViolation(i) /\ UNCHANGED serverVars
    \/ \E i \in 1..MaxTimers : FireRestore(i) /\ UNCHANGED serverVars

SpecRecovery ==
    /\ InitRecovery
    /\ [][NextRecovery]_vars
    /\ WF_vars(\E m \in CoreSamples : FlushEffects(m) /\ UNCHANGED serverVars)
    /\ WF_vars(Advance /\ UNCHANGED serverVars)
    /\ WF_vars(\E i \in 1..MaxTimers : FireClearViolation(i) /\ UNCHANGED serverVars)
    /\ WF_vars(\E i \in 1..MaxTimers : FireRestore(i) /\ UNCHANGED serverVars)

\* The monitor switched on and off while its flags are away from their first
\* values.
InitToggle == InitMonitor /\ propsStable /\ FixedWindow /\ InitGate /\ InitProbe

NextToggle ==
    \/ ToggleEnabled /\ UNCHANGED serverVars
    \/ ContextMenu /\ UNCHANGED serverVars
    \/ Copy /\ UNCHANGED serverVars
    \/ Blur /\ UNCHANGED serverVars
    \/ \E m \in CoreSamples : IntervalTick(m) /\ UNCHANGED serverVars
    \/ \E m \in CoreSamples : FlushEffects(m) /\ UNCHANGED serverVars
    \/ Advance /\ UNCHANGED serverVars
    \/ \E i \in 1..MaxTimers : FireClearViolation(i) /\ UNCHANGED serverVars

SpecToggle == InitToggle /\ [][NextToggle]_vars

InitTeardown == InitMonitor /\ enabled /\ propsStable /\ FixedWindow /\ InitGate /\ InitProbe

NextTeardown ==
    \/ Focus /\ UNCHANGED serverVars
    \/ \E e \in ShieldKeys : KeyUp(e) /\ UNCHANGED serverVars
    \/ FlushEffects(QuietSample) /\ UNCHANGED serverVars
    \/ ToggleEnabled /\ UNCHANGED serverVars
    \/ ContentRefChange /\ UNCHANGED serverVars
    \/ Advance /\ UNCHANGED serverVars
    \/ \E i \in 1..MaxTimers : FireShowContent(i) /\ UNCHANGED serverVars
    \/ \E i \in 1..MaxTimers : FireRestore(i) /\ UNCHANGED serverVars

SpecTeardown == InitTeardown /\ [][NextTeardown]_vars

InitServer == InitMonitor /\ enabled /\ propsStable /\ FixedWindow /\ InitGate /\ InitProbe

NextGate ==
    \/ \E m \in Methods, p \in Paths, h \in AuthorizationHeaders : Receive(m, p, h)
    \/ VerifyDone
    \/ \E d \in LookupOutcomes : LookupDone(d)
    \/ \E parsed \in BOOLEAN, thrown \in BOOLEAN : Downstream(parsed, thrown)
    \/ Finish

NextServer == NextGate /\ UNCHANGED <<monitorVars, probeVars>>

SpecGate == InitServer /\ [][NextServer]_vars

\* testAccess runs to its end when the event loop runs its continuation and
\* every request gives a response or an error.
NextScript == NextProbe /\ UNCHANGED <<monitorVars, gateVars>>

SpecProbe ==
    /\ InitServer
    /\ [][NextScript]_vars
    /\ WF_vars(StartRequest /\ UNCHANGED <<monitorVars, gateVars>>)
    /\ WF_vars(\E outcome \in ProbeOutcomes : Settle(outcome) /\ UNCHANGED <<monitorVars, gateVars>>)

(***************************************************************************)
(* Properties of the Security Monitor.                                     *)
(***************************************************************************)
\* C1: in every reachable state the exposed isSecure flag equals
\* isFocused AND NOT devToolsOpen AND (no violation message is set).
C1_IsSecureIsConjunction ==
    isSecure = (isFocused /\ ~devToolsOpen /\ securityViolation = Null)

\* A violation alone (window focused, DevTools not suspected) makes the monitor
\* insecure, and it is secure again once the violation has been cleared.
C1_Witness ==
    /\ step.op = "timer" /\ step.input = "clearViolation"
    /\ lastShown # Null
    /\ isFocused /\ ~devToolsOpen /\ securityViolation = Null /\ isSecure

\* The timer of the most recent showViolation call, when it is still pending.
ViolationTimerIndexes == {i \in 1..Len(timers) : timers[i].kind = "clearViolation"}

LastViolationTimerRem ==
    IF ViolationTimerIndexes = {} THEN 0
    ELSE timers[CHOOSE i \in ViolationTimerIndexes :
                    \A j \in ViolationTimerIndexes : j <= i].rem

\* C2: the banner stays set for the whole 3000 ms after its last (re)trigger:
\* while less than 3000 ms have passed since the most recent showViolation(m),
\* the message is m (an earlier timer does not clear it).
C2_BannerLastsFromLastTrigger ==
    LastViolationTimerRem > 0 => securityViolation = lastShown

\* C3: DevTools detection is edge-triggered: a step emits a DEVTOOLS_DETECTED
\* event exactly when devToolsOpen goes from false to true in it (then exactly
\* one), every poll leaves devToolsOpen equal to the verdict it measured, and
\* nothing but a poll changes devToolsOpen.
DetectedCount(r) ==
    Len(SelectSeq(EmittedTypes(r), LAMBDA t : t = "DEVTOOLS_DETECTED"))

IsPoll(r) == r.op = "poll" \/ (r.op = "effect" /\ r.input # NoInput)

C3_DevToolsEdgeTriggered ==
    [][ /\ DetectedCount(step') = (IF ~devToolsOpen /\ devToolsOpen' THEN 1 ELSE 0)
        /\ IF IsPoll(step')
              THEN devToolsOpen' = isOpen(step'.input)
              ELSE devToolsOpen' = devToolsOpen ]_vars

\* A poll (an interval tick or the immediate poll of a re-attachment) measured
\* an open verdict while DevTools was already suspected, and emitted nothing.
C3_Witness ==
    /\ IsPoll(step) /\ isOpen(step.input)
    /\ devToolsOpen /\ triggerCount = 1
    /\ Emitted(step) = <<>>

\* C4: resize monitoring is level-triggered: a handled resize whose change in
\* outer width or height from the remembered value exceeds 500 px emits exactly
\* one LARGE_RESIZE_DETECTED event, whatever was emitted before; a smaller one
\* emits none; and afterwards the remembered size is the current outer size.
C4_ResizeLevelTriggered ==
    [][ step'.op = "resize" =>
          LET w == step'.input[1]
              h == step'.input[2]
              large == \/ w - lastWidth > 500 \/ lastWidth - w > 500
                       \/ h - lastHeight > 500 \/ lastHeight - h > 500
          IN  /\ EmittedTypes(step') =
                    (IF large THEN <<"LARGE_RESIZE_DETECTED">> ELSE <<>>)
              /\ triggerCount' = triggerCount + (IF large THEN 1 ELSE 0)
              /\ outerWidth' = w /\ outerHeight' = h
              /\ lastWidth' = outerWidth' /\ lastHeight' = outerHeight' ]_vars

\* A second large resize in a row emitted its own event.
C4_Witness ==
    /\ step.op = "resize"
    /\ EmittedTypes(step) = <<"LARGE_RESIZE_DETECTED">>
    /\ triggerCount = 2
    /\ lastWidth = outerWidth /\ lastHeight = outerHeight

\* The classification the keyboard rules prescribe for a keydown descriptor:
\* <<"Block", action>> or <<"Allow">>.
IsKey(e, lower, upper) == e.key = lower \/ e.key = upper

CtrlOrMeta(e) == e.ctrlKey \/ e.metaKey

Classification(e) ==
    IF CtrlOrMeta(e) /\ ~e.shiftKey /\ IsKey(e, "p", "P") THEN <<"Block", "print">>
    ELSE IF CtrlOrMeta(e) /\ ~e.shiftKey /\ IsKey(e, "s", "S") THEN <<"Block", "save">>
    ELSE IF CtrlOrMeta(e) /\ ~e.shiftKey /\ IsKey(e, "c", "C") THEN <<"Block", "copy">>
    ELSE IF CtrlOrMeta(e) /\ ~e.shiftKey /\ IsKey(e, "a", "A") THEN <<"Block", "select_all">>
    ELSE IF CtrlOrMeta(e) /\ ~e.shiftKey /\ IsKey(e, "u", "U") THEN <<"Block", "view_source">>
    ELSE IF CtrlOrMeta(e) /\ e.shiftKey /\ IsKey(e, "i", "I") THEN <<"Block", "devtools">>
    ELSE IF CtrlOrMeta(e) /\ e.shiftKey /\ IsKey(e, "j", "J") THEN <<"Block", "devtools">>
    ELSE IF CtrlOrMeta(e) /\ e.shiftKey /\ IsKey(e, "c", "C") THEN <<"Block", "devtools">>
    ELSE IF CtrlOrMeta(e) /\ e.shiftKey /\ IsKey(e, "s", "S") THEN <<"Block", "screenshot">>
    ELSE IF e.key = "F12" THEN <<"Block", "devtools">>
    ELSE <<"Allow">>

KeyboardBlocked(r) == SelectSeq(Emitted(r), LAMBDA ev : ev.type = "KEYBOARD_BLOCKED")

\* A keydown was blocked with the action: the default was suppressed and
\* exactly one KEYBOARD_BLOCKED event naming the action was emitted.
BlockedWith(r, action) ==
    /\ Prevented(r)
    /\ Len(KeyboardBlocked(r)) = 1
    /\ KeyboardBlocked(r)[1].details.action = action

\* C5 as stated: every keydown is blocked with the action of its
\* classification, and every other descriptor is allowed: no KEYBOARD_BLOCKED
\* event and the default action not suppressed.
C5_ClassifierAsStated ==
    step.op = "keydown" =>
        LET c == Classification(step.input)
        IN  IF c[1] = "Block"
                THEN BlockedWith(step, c[2])
                ELSE KeyboardBlocked(step) = <<>> /\ ~Prevented(step)

\* C5 amended: as stated, except that a PrintScreen keydown, which the rules
\* classify as allowed, has its default action suppressed by the PrintScreen
\* special case (still without a KEYBOARD_BLOCKED event).
C5_ClassifierAmended ==
    step.op = "keydown" =>
        LET c == Classification(step.input)
        IN  IF c[1] = "Block"
                THEN BlockedWith(step, c[2])
                ELSE /\ KeyboardBlocked(step) = <<>>
                     /\ Prevented(step) = (step.input.key = "PrintScreen")

\* An upper-case key with the meta modifier was blocked as a DevTools shortcut.
C5_Witness ==
    /\ step.op = "keydown"
    /\ step.input = [key |-> "C", ctrlKey |-> FALSE, metaKey |-> TRUE, shiftKey |-> TRUE]
    /\ BlockedWith(step, "devtools")
    /\ securityViolation = <<"devtools is disabled">>

(***************************************************************************)
(* Properties of the Access Gate and the document router.                  *)
(***************************************************************************)
GateRan == stack # <<>> /\ ran # <<>>

OnlyGateRan == ran = <<"authMiddleware">>

\* C6: a request whose Authorization header is absent or does not begin with
\* "Bearer " is answered 401, and neither the verifier, the user store nor a
\* downstream handler is invoked for it.
C6_NoBearerIs401 ==
    (GateRan /\ request.authorization \in OtherHeaders) =>
        /\ Len(responses) = 1
        /\ responses[1].status = 401
        /\ collaborators = Calls(0, 0, 0)
        /\ OnlyGateRan

\* A header that names the scheme in lower case was turned away.
C6_Witness ==
    /\ gpc = "done"
    /\ request.authorization = <<"b", "e", "a", "r", "e", "r", " ", "v">>
    /\ responses = <<NoTokenResponse>>

VerificationFailed == GateRan /\ ~verified.ok /\ verified.cause # "not called"

\* C7: whenever verification of the bearer token fails, whatever the cause,
\* the response is 401 with one fixed body, and no downstream handler runs.
C7_VerificationFailureIsOne401 ==
    VerificationFailed =>
        /\ responses = <<Response(401, [message |-> "Unauthorized: Invalid token"])>>
        /\ collaborators.next = 0
        /\ OnlyGateRan

\* An expired token was answered.
C7_Witness ==
    /\ VerificationFailed
    /\ verified.cause = "auth/id-token-expired"
    /\ Len(responses) = 1

DisabledRecord == GateRan /\ verified.ok /\ userDoc.kind = "exists" /\ userDoc.disabled = "true"

ReasonIsSet == userDoc.disabledReason \notin {Undefined, <<>>}

\* C8: for a valid token whose user record exists with disabled = true, the
\* response is 403 with the record's disabledReason when one is set (present
\* and not empty) and "Terms verification pending" otherwise, and no downstream
\* handler is invoked.
C8_DisabledIs403WithReason ==
    DisabledRecord =>
        /\ Len(responses) = 1
        /\ responses[1].status = 403
        /\ responses[1].body.reason =
               (IF ReasonIsSet THEN userDoc.disabledReason
                               ELSE <<"Terms verification pending">>)
        /\ collaborators.next = 0
        /\ OnlyGateRan

\* A disabled record with a reason was answered with that reason.
C8_Witness ==
    /\ DisabledRecord
    /\ userDoc.disabledReason = <<"Repeated screenshots">>
    /\ responses[1].body.reason = <<"Repeated screenshots">>

\* C9: for a valid token, the step that ends the record lookup calls next
\* exactly when the record is absent or exists with disabled not true, and an
\* absent record gets no response from the gate.
C9_ProceedsUnlessDisabled ==
    [][ (gpc = "loading" /\ gpc' # "loading") =>
          LET proceeds == \/ userDoc'.kind = "absent"
                          \/ userDoc'.kind = "exists" /\ userDoc'.disabled # "true"
              calledNext == collaborators'.next = collaborators.next + 1 /\ gpc' = "next"
          IN  /\ verified.ok
              /\ calledNext <=> proceeds
              /\ ~calledNext => collaborators'.next = collaborators.next
              /\ userDoc'.kind = "absent" => responses' = <<>> ]_vars

\* A valid token without a user record went on to the controller.
C9_Witness ==
    /\ gpc = "done"
    /\ verified.ok
    /\ userDoc.kind = "absent"
    /\ collaborators.next = 1
    /\ responses = <<>>
    /\ Len(ran) = 2

\* C10: a controller, or the multipart parser of the upload route, runs for a
\* request only after the Access Gate ran first for that request and called
\* next.
C10_ControllersBehindGate ==
    \A i \in 1..Len(ran) :
        ran[i] # "authMiddleware" =>
            /\ i > 1
            /\ ran[1] = "authMiddleware"
            /\ collaborators.next = 1

\* An upload passed the gate, the multipart parser and reached its controller.
C10_Witness ==
    /\ request.method = "POST" /\ request.path = <<"upload">>
    /\ ran = <<"authMiddleware", "upload.single", "uploadPDF">>
    /\ collaborators.next = 1

(***************************************************************************)
(* Properties of the content shield: hiding and delayed restoring.         *)
(***************************************************************************)
Hides(r) == \E i \in 1..Len(r.calls) : r.calls[i] = Hide

\* The step applies the restore of a timer that was due.
AppliesDueRestore ==
    \E i \in 1..Len(timers) :
        /\ timers[i].kind = "restore"
        /\ timers[i].rem = 0
        /\ timers' = RemoveAt(timers, i)

C16_HideDoesNotCancelRestore ==
    [][ /\ Hides(step') =>
              /\ Len(timers') >= Len(timers)
              /\ SubSeq(timers', 1, Len(timers)) = timers
        /\ (step'.op = "timer" /\ step'.input = "restore" /\ contentAttached) =>
              /\ AppliesDueRestore
              /\ style'.opacity = "1" /\ style'.filter = "none"
      ]_vars

\* A restore scheduled by a focus fired after a blur: the content is visible
\* and the window is not focused.
C16_Witness ==
    /\ step.op = "timer" /\ step.input = "restore"
    /\ ~isFocused
    /\ style = Shown

(***************************************************************************)
(* Properties of the keyboard layer's PrintScreen and platform-key         *)
(* handling, and of attaching and detaching the layers.                    *)
(***************************************************************************)
Called(r, call) == \E i \in 1..Len(r.calls) : r.calls[i] = call

TimesCalled(r, call) == Cardinality({i \in 1..Len(r.calls) : r.calls[i] = call})

\* C12: a PrintScreen keydown and a PrintScreen keyup get the same full
\* response: the content is hidden, the clipboard overwrite is attempted, one
\* PRINTSCREEN_BLOCKED event is emitted, the violation 'Screenshots are
\* disabled' is raised and a delayed restore is scheduled.
C12_PrintScreenFullResponseOnDownAndUp ==
    (step.op \in {"keydown", "keyup"} /\ step.input.key = "PrintScreen") =>
        /\ Called(step, Hide)
        /\ Called(step, Clipboard)
        /\ EmittedTypes(step) = <<"PRINTSCREEN_BLOCKED">>
        /\ Violations(step) = <<"Screenshots are disabled">>
        /\ Called(step, SetTimeoutShow(2000))

\* The delay the shield prescribes for the event that started a restore.
SpecifiedDelay(origin) ==
    CASE origin \in {<<"focus">>, <<"visibilitychange">>} -> 100
      [] origin \in {<<"keydown", "PrintScreen">>, <<"keyup", "PrintScreen">>} -> 2000
      [] origin \in {<<"keyup", "Meta">>, <<"keyup", "OS">>} -> 1000
      [] OTHER -> 0

\* C13: the restore of opacity and filter comes exactly the prescribed delay
\* after the event that started it: 100 ms after a focus or document-visible,
\* 2000 ms after a PrintScreen keydown or keyup, 1000 ms after the release of
\* the Meta/OS key.
C13_RestoreAfterSpecifiedDelay ==
    \A i \in 1..Len(timers) :
        timers[i].kind = "restore" => timers[i].total = SpecifiedDelay(timers[i].origin)

InputOps == {"contextmenu", "keydown", "keyup", "blur", "focus", "visibilitychange",
             "resize", "dragstart", "drop", "selectstart", "copy", "cut"}

\* C14: once the monitor is stopped (enabled false and the cleanups run), an
\* input of any layer hides or shows nothing, emits no event, raises no
\* violation and changes no monitor state.
C14_NoListenerAfterStop ==
    [][ (~enabled /\ ~effectsPending /\ step'.op \in InputOps) =>
            /\ step'.calls = << >>
            /\ UNCHANGED <<style, timers, submitted, isFocused, devToolsOpen,
                           securityViolation, triggerCount, isSecure>>
      ]_vars

\* C17: while the monitor is enabled, whatever toggles and re-attachments came
\* before, one input is handled once: a blur emits one FOCUS_LOST, a contextmenu
\* one CONTEXT_MENU_BLOCKED, and a PrintScreen keyup schedules one delayed
\* restore.
C17_OneHandlerPerEventType ==
    [][ (enabled /\ ~effectsPending) =>
            /\ step'.op = "blur" => EmittedTypes(step') = <<"FOCUS_LOST">>
            /\ step'.op = "contextmenu" => EmittedTypes(step') = <<"CONTEXT_MENU_BLOCKED">>
            /\ (step'.op = "keyup" /\ step'.input.key = "PrintScreen") =>
                   /\ TimesCalled(step', SetTimeoutShow(2000)) = 1
                   /\ Len(timers') = Len(timers) + 1
      ]_vars

\* C15: a delayed-show timer that fires after the monitor was disabled, or
\* after the content element is gone, is a no-op: it changes no opacity or
\* filter and no monitor state, schedules nothing and raises no error.
C15_LateShowTimerIsNoOp ==
    [][ (/\ step'.op = "timer"
         /\ step'.input \in {"showContent", "restore"}
         /\ (~enabled \/ ~contentAttached)) =>
            /\ Len(timers') = Len(timers) - 1
            /\ UNCHANGED <<style, uncaught, isFocused, devToolsOpen, securityViolation,
                           triggerCount, isSecure, submitted>>
      ]_vars

(***************************************************************************)
(* Properties of the order of effects within one handler.                  *)
(***************************************************************************)
\* The position of the first call of a kind in a handler run, 0 when none.
FirstCall(r, tag) ==
    LET at == {i \in 1..Len(r.calls) : r.calls[i][1] = tag}
    IN  IF at = {} THEN 0 ELSE CHOOSE i \in at : \A j \in at : i <= j

\* The calls of the kinds are all there, in this order.
InOrder(r, tags) ==
    /\ \A i \in 1..Len(tags) : FirstCall(r, tags[i]) > 0
    /\ \A i \in 1..(Len(tags) - 1) : FirstCall(r, tags[i]) < FirstCall(r, tags[i + 1])

\* C18: within one handler the effects come in the order suppress-default,
\* hide, event emission, violation, and a keydown takes one classification
\* decision: at most one event and one violation; for a blocked keydown
\* preventDefault comes before the KEYBOARD_BLOCKED emission and that before
\* the violation; for PrintScreen and for blur the content is hidden before
\* the event is submitted.
C18_EffectsInFixedOrder ==
    /\ step.op = "keydown" =>
          /\ Len(Emitted(step)) <= 1
          /\ Len(Violations(step)) = Len(Emitted(step))
          /\ KeyboardBlocked(step) # << >> =>
                 InOrder(step, <<"preventDefault", "logEvent", "showViolation">>)
          /\ step.input.key = "PrintScreen" =>
                 /\ EmittedTypes(step) = <<"PRINTSCREEN_BLOCKED">>
                 /\ InOrder(step, <<"preventDefault", "hideContentInstantly",
                                    "logEvent", "showViolation">>)
    /\ step.op = "blur" =>
          /\ EmittedTypes(step) = <<"FOCUS_LOST">>
          /\ InOrder(step, <<"hideContentInstantly", "logEvent">>)

\* A PrintScreen keydown ran its six calls and left the content hidden.
C18_Witness ==
    /\ step.op = "keydown"
    /\ step.input.key = "PrintScreen"
    /\ Len(step.calls) = 6
    /\ style = Hidden
    /\ securityViolation = <<"Screenshots are disabled">>

(***************************************************************************)
(* Properties of the events: the DevTools method and the trigger count.    *)
(***************************************************************************)
\* The three signals of a measurement, as the detector defines them.
GeometrySignal(m) == m.widthDiff > 160 \/ m.heightDiff > 160
TimingSignal(m) == m.duration > 100
PauseSignal(m) == m.debugDuration > 100

\* C19: every DEVTOOLS_DETECTED event names the first true signal in the
\* order geometry, timing, pause: 'size' whenever geometry is true, 'console'
\* when geometry is false and timing is true, 'debugger' only when the pause
\* signal alone is true; and it is emitted only by a poll that measured at
\* least one true signal.
C19_MethodIsFirstTrueSignal ==
    \A i \in 1..Len(Emitted(step)) :
        Emitted(step)[i].type = "DEVTOOLS_DETECTED" =>
            /\ IsPoll(step)
            /\ LET m == step.input
                   method == Emitted(step)[i].details.method
               IN  /\ GeometrySignal(m) \/ TimingSignal(m) \/ PauseSignal(m)
                   /\ method = "size" <=> GeometrySignal(m)
                   /\ method = "console" <=> (~GeometrySignal(m) /\ TimingSignal(m))
                   /\ method = "debugger" <=>
                          (~GeometrySignal(m) /\ ~TimingSignal(m) /\ PauseSignal(m))

\* A poll found the timing and the pause signal true, the geometry signal
\* false, and reported 'console'.
C19_Witness ==
    /\ IsPoll(step)
    /\ ~GeometrySignal(step.input) /\ TimingSignal(step.input) /\ PauseSignal(step.input)
    /\ Emitted(step) = << SecurityEvent("DEVTOOLS_DETECTED", [method |-> "console"]) >>
    /\ devToolsOpen

\* C20: triggerCount is the number of events submitted to the sink since the
\* monitor was created: each step raises both by the number of events it
\* emitted, nothing else changes triggerCount, and it never decreases.
C20_TriggerCountIsEventsSubmitted ==
    [][ /\ triggerCount = submitted
        /\ submitted' = submitted + Len(Emitted(step'))
        /\ triggerCount' = submitted'
        /\ triggerCount' >= triggerCount
      ]_vars

\* Two events were counted and the monitor has been disabled since.
C20_Witness ==
    /\ triggerCount = 2
    /\ submitted = 2
    /\ ~enabled /\ ~attached /\ ~effectsPending

(***************************************************************************)
(* Properties of the focus layer and of the platform-menu key.             *)
(***************************************************************************)
\* C21: the focus layer sets isFocused from the most recent of its four
\* inputs: a blur sets it false and emits exactly one FOCUS_LOST, a
\* document-hidden sets it false and emits exactly one TAB_HIDDEN, a window
\* focus and a document-visible set it true and emit nothing, whatever the
\* value before (so a document-visible after a blur gives isFocused = true);
\* no other step changes isFocused.
C21_FocusFollowsLastInput ==
    [][ /\ step'.op = "blur" =>
              ~isFocused' /\ EmittedTypes(step') = <<"FOCUS_LOST">>
        /\ (step'.op = "visibilitychange" /\ step'.input = TRUE) =>
              ~isFocused' /\ EmittedTypes(step') = <<"TAB_HIDDEN">>
        /\ step'.op = "focus" =>
              isFocused' /\ Emitted(step') = << >> /\ submitted' = submitted
        /\ (step'.op = "visibilitychange" /\ step'.input = FALSE) =>
              isFocused' /\ Emitted(step') = << >> /\ submitted' = submitted
        /\ step'.op \notin {"blur", "focus", "visibilitychange"} =>
              isFocused' = isFocused
      ]_vars

\* A document-visible notification was handled while the content was still
\* hidden from an earlier loss of focus: isFocused is true again.
C21_Witness ==
    /\ step.op = "visibilitychange" /\ step.input = FALSE
    /\ isFocused
    /\ style = Hidden
    /\ submitted = 1
    /\ lastShown = Null /\ ~devToolsOpen

IsMetaKey(r) == r.op \in {"keydown", "keyup"} /\ r.input.key \in {"Meta", "OS"}

\* C22: pressing the Meta/OS key hides the content at once and schedules
\* nothing; releasing it schedules a delayed restore (showContent after
\* 1000 ms) and leaves the style alone; neither step emits an event, raises a
\* violation, suppresses the default action, or changes isFocused,
\* devToolsOpen, the violation message or triggerCount.
C22_MetaKeyHidesAndRestoresQuietly ==
    [][ IsMetaKey(step') =>
          /\ Emitted(step') = << >>
          /\ Violations(step') = << >>
          /\ ~Prevented(step')
          /\ UNCHANGED <<isFocused, devToolsOpen, securityViolation, triggerCount,
                         submitted, isSecure>>
          /\ step'.op = "keydown" =>
                 /\ contentAttached => style' = Hidden
                 /\ timers' = timers
          /\ step'.op = "keyup" =>
                 /\ style' = style
                 /\ Len(timers') > Len(timers)
                 /\ SubSeq(timers', 1, Len(timers)) = timers
                 /\ \A i \in (Len(timers) + 1)..Len(timers') :
                        timers'[i].kind = "showContent" /\ timers'[i].rem = 1000
      ]_vars

\* The Meta key was released after its press had hidden the content: a
\* showContent timer is pending and nothing was counted.
C22_Witness ==
    /\ step.op = "keyup" /\ step.input.key = "Meta"
    /\ style = Hidden
    /\ isFocused
    /\ submitted = 0 /\ triggerCount = 0 /\ securityViolation = Null
    /\ \E i \in 1..Len(timers) : timers[i].kind = "showContent" /\ timers[i].rem = 1000

Refused == responses # <<>> /\ responses[Len(responses)].status \in {401, 403}

\* C24: whenever the gate has answered a request 401 or 403, the request
\* context carries no identity (req.user is unset).
C24_NoIdentityOnRefusal ==
    (GateRan /\ Refused) => reqUser = <<>>

\* C25: once the gate is through with a request, whatever the verifier, the
\* user store and the downstream handler did, it has produced exactly one
\* outcome: one response of its own, or one call of the downstream handler,
\* never both.
C25_ExactlyOneOutcome ==
    (GateRan /\ gpc = "done") =>
        Len(responses) + collaborators.next = 1

StoreFailed == GateRan /\ verified.ok /\ userDoc.kind = "throws"

\* C26: when the token verifies and loading the user record throws, the
\* response is the 401 "Unauthorized: Invalid token" of a failed verification
\* and no downstream handler runs.
C26_StoreFailureIsInvalidToken ==
    StoreFailed =>
        /\ responses = <<Response(401, [message |-> "Unauthorized: Invalid token"])>>
        /\ responses = <<InvalidTokenResponse(Rejected("auth/id-token-expired").cause)>>
        /\ collaborators.next = 0
        /\ OnlyGateRan

\* The store threw for a verified token on the metadata route; the request
\* was answered and its controller did not run.
C26_Witness ==
    /\ StoreFailed
    /\ gpc = "done"
    /\ request.path = <<"metadata", "p1">>
    /\ collaborators = Calls(1, 1, 0)
    /\ Len(responses) = 1

(***************************************************************************)
(* Properties of the combination probe.                                    *)
(***************************************************************************)
ProbedUrl(rType, type) ==
    [resource_type |-> rType, type |-> type, sign_url |-> TRUE, secure |-> TRUE]

NestedOrder ==
    << ProbedUrl("image", "upload"), ProbedUrl("image", "authenticated"),
       ProbedUrl("raw", "upload"), ProbedUrl("raw", "authenticated"),
       ProbedUrl("auto", "upload"), ProbedUrl("auto", "authenticated") >>

\* C27: the probe requests the signed URLs of the 3 x 2 combinations in
\* nested order, each once and none again, one at a time (a request is issued
\* only when every earlier one has given a response or an error), whatever the
\* earlier ones gave; it has returned only after all six, and it does return
\* when every request gives a response or an error.
C27_ProbeTriesEachCombinationOnce ==
    /\ [](/\ Len(issued) <= Len(NestedOrder)
          /\ issued = SubSeq(NestedOrder, 1, Len(issued))
          /\ Len(issued) = Len(results) + (IF ppc = "awaiting" THEN 1 ELSE 0)
          /\ ppc = "done" => issued = NestedOrder /\ Len(results) = Len(NestedOrder))
    /\ [][ issued' # issued =>
              /\ Len(results) = Len(issued)
              /\ issued' = Append(issued, NestedOrder[Len(issued) + 1])
        ]_vars
    /\ <>(ppc = "done")

\* The probe has returned after requests that failed with an error, that
\* were answered 404 and that were answered 200, in that order.
C27_Witness ==
    /\ ppc = "done"
    /\ issued = NestedOrder
    /\ results[1].outcome = Errored
    /\ results[2].outcome = Responded(404)
    /\ results[3].outcome = Responded(200)
    /\ results[4].outcome = Errored
    /\ results[3].lateError

(***************************************************************************)
(* The polling interval and the enable/disable steps.                      *)
(***************************************************************************)
\* C28: at most one interval of checkDevTools is running, it is the one the
\* ref holds, and none is running once the effects of a disabling render
\* have been flushed; a flush that starts an interval leaves exactly one.
C28_AtMostOneInterval ==
    /\ intervals <= 1
    /\ intervalActive <=> intervals = 1
    /\ (~enabled /\ ~effectsPending) => intervals = 0
    /\ (enabled /\ ~effectsPending) => intervals = 1

\* The DevTools layer was re-attached after devToolsOpen turned true (the
\* interval of the first attachment had been running): one interval runs.
C28_Witness ==
    /\ step.op = "effect"
    /\ devToolsOpen
    /\ enabled /\ ~effectsPending
    /\ submitted = 1
    /\ intervals = 1

Toggled == enabled' # enabled

\* The effects of a render that flipped `enabled` are flushed.
ToggleFlushed == step.op = "render" /\ step'.op = "effect"

\* C29 as stated: switching the monitor on or off (the render and the flush
\* of its effects) leaves isFocused, devToolsOpen, the violation message and
\* triggerCount as they were.
C29_ToggleLeavesStateUnchanged ==
    [][ (Toggled \/ ToggleFlushed) =>
            UNCHANGED <<isFocused, devToolsOpen, securityViolation, triggerCount>>
      ]_vars

\* C29, amended: the render that flips `enabled` and the flush that switches
\* the monitor off leave isFocused, devToolsOpen, the violation message and
\* triggerCount as they were; the flush that switches it on leaves isFocused
\* and the message, and changes devToolsOpen and triggerCount only by what its
\* immediate DevTools check measures; while the monitor stays disabled no step
\* changes isFocused, devToolsOpen or triggerCount, so a monitor disabled
\* while unfocused or with DevTools suspected keeps isSecure = false.
C29_DisablingLeavesStateUnchanged ==
    [][ /\ Toggled =>
              UNCHANGED <<isFocused, devToolsOpen, securityViolation, triggerCount>>
        /\ (ToggleFlushed /\ ~enabled) =>
              UNCHANGED <<isFocused, devToolsOpen, securityViolation, triggerCount>>
        /\ (ToggleFlushed /\ enabled) =>
              /\ UNCHANGED <<isFocused, securityViolation>>
              /\ devToolsOpen' = isOpen(step'.input)
              /\ triggerCount' = triggerCount
                                   + (IF devToolsOpen' /\ ~devToolsOpen THEN 1 ELSE 0)
        /\ (~enabled /\ ~enabled') =>
              /\ UNCHANGED <<isFocused, devToolsOpen, triggerCount>>
              /\ (~isFocused \/ devToolsOpen) => (~isSecure /\ ~isSecure')
      ]_vars

\* The monitor was switched off while the window was unfocused and a
\* violation message was up: both are as they were, and it is not secure.
C29_Witness ==
    /\ step.op = "effect"
    /\ ~enabled /\ ~effectsPending /\ ~attached
    /\ ~isFocused
    /\ securityViolation = <<"Right-click is disabled">>
    /\ triggerCount = 2
    /\ ~isSecure

====
